---- MODULE Spec2Model ----
(***************************************************************************)
(* Verification model of the rustimage-core conversion engine:             *)
(*   - FormatDetector::detect            (codecs.rs)                       *)
(*   - CodecEngine decode / encode       (codecs.rs)                       *)
(*   - FormatConverter convert_format / batch_convert (converter.rs)       *)
(*   - the PerformanceMonitor recording calls made by the converter        *)
(*     (performance.rs)                                                    *)
(* Byte strings are sequences of numbers 0..255.  Results are records      *)
(* tagged "Ok" / "Err"; a Rust panic is the record tagged "Panic".         *)
(***************************************************************************)
EXTENDS Integers, Sequences, FiniteSets, TLC

VARIABLES
    config,            \* FormatConverter.config (the fields the engine reads)
    conversion_stats,  \* FormatConverter.conversion_stats
    perf,              \* FormatConverter.performance_monitor (collector state)
    pc,                \* "idle" | "seq" | "par": position inside batch_convert
    batch,             \* the running batch: images, tasks, results, order
    last,              \* observation of the last finished public call
    budget,            \* conversions still allowed by the bound
    workload,          \* the two formats this run converts between
    det_data,          \* argument of the last FormatDetector::detect call
    det_result,        \* its result
    overflow_checks,   \* build profile: does integer overflow panic (debug)?
    buf,               \* an ImageBuffer<P>, or NoBuffer before construction
    buf_ret,           \* the last ImageBuffer call and what it returned
    builder,           \* ConversionOptionsBuilder.options
    ret,               \* the last call on a value type and what it returned
    inner              \* ImageConverter.inner: "Some" while the wasm wrapper
                       \* holds its FormatConverter, "None" once destroyed

vars ==
    <<config, conversion_stats, perf, pc, batch, last, budget, workload,
      det_data, det_result, overflow_checks, buf, buf_ret, builder, ret,
      inner>>

conv_vars ==
    <<config, conversion_stats, perf, pc, batch, last, budget, workload>>

det_vars ==
    <<det_data, det_result>>

buf_vars ==
    <<overflow_checks, buf, buf_ret>>

types_vars ==
    <<builder, ret>>

wasm_vars ==
    <<inner>>

\* the variables the converter's actions leave alone
outside_converter ==
    <<det_vars, buf_vars, types_vars, wasm_vars>>

outside_detector ==
    <<conv_vars, buf_vars, types_vars, wasm_vars>>

outside_buffer ==
    <<conv_vars, det_vars, types_vars, wasm_vars>>

outside_types ==
    <<conv_vars, det_vars, buf_vars, wasm_vars>>

-----------------------------------------------------------------------------
(* Bounds *)

MaxDataLen == 12

MaxBatch == 2

MaxConversions == 2

-----------------------------------------------------------------------------
(* ImageFormat and the result / error values *)

ImageFormat ==
    {"Jpeg", "Png", "WebP", "Avif", "Bmp", "Tiff", "Gif", "Ico"}

Ok(v) ==
    [tag |-> "Ok", value |-> v]

Err(kind, msg, arg) ==
    [tag |-> "Err", error |-> [kind |-> kind, details |-> <<msg, arg>>]]

Panic ==
    [tag |-> "Panic"]

NoResult ==
    [tag |-> "None"]

Some(v) ==
    [tag |-> "Some", value |-> v]

\* the quotient n / d of two floating point values, kept as a fraction
Ratio(n, d) ==
    [num |-> n, den |-> d]

IsOk(r) ==
    r.tag = "Ok"

IsErr(r) ==
    r.tag = "Err"

-----------------------------------------------------------------------------
(* FormatDetector::detect *)

MinDetectLen == 8

StartsWith(data, prefix) ==
    /\ Len(data) >= Len(prefix)
    /\ SubSeq(data, 1, Len(prefix)) = prefix

\* data[lo..hi] == pat ; indexing past the end of a slice panics
SliceEq(data, lo, hi, pat) ==
    IF hi > Len(data) THEN "panic"
    ELSE IF SubSeq(data, lo + 1, hi) = pat THEN "yes" ELSE "no"

\* short-circuit a && b over "yes" / "no" / "panic"
AndThen(a, b) ==
    IF a = "yes" THEN b ELSE a

LenAtLeast(data, n) ==
    IF Len(data) >= n THEN "yes" ELSE "no"

IsJpeg(data) ==
    IF StartsWith(data, <<255, 216, 255>>) THEN "yes" ELSE "no"

IsPng(data) ==
    IF StartsWith(data, <<137, 80, 78, 71, 13, 10, 26, 10>>) THEN "yes" ELSE "no"

IsWebP(data) ==
    AndThen(LenAtLeast(data, 12),
            AndThen(SliceEq(data, 0, 4, <<82, 73, 70, 70>>),
                    SliceEq(data, 8, 12, <<87, 69, 66, 80>>)))

IsAvif(data) ==
    AndThen(LenAtLeast(data, 12),
            AndThen(SliceEq(data, 4, 8, <<102, 116, 121, 112>>),
                    SliceEq(data, 8, 12, <<97, 118, 105, 102>>)))

IsBmp(data) ==
    IF StartsWith(data, <<66, 77>>) THEN "yes" ELSE "no"

IsTiff(data) ==
    IF \/ StartsWith(data, <<73, 73, 42, 0>>)
       \/ StartsWith(data, <<77, 77, 0, 42>>)
    THEN "yes" ELSE "no"

IsGif(data) ==
    IF \/ StartsWith(data, <<71, 73, 70, 56, 55, 97>>)
       \/ StartsWith(data, <<71, 73, 70, 56, 57, 97>>)
    THEN "yes" ELSE "no"

IsIco(data) ==
    AndThen(LenAtLeast(data, 4), SliceEq(data, 0, 4, <<0, 0, 1, 0>>))

\* the order in which detect applies its tests
DetectOrder ==
    <<"Jpeg", "Png", "WebP", "Avif", "Bmp", "Tiff", "Gif", "Ico">>

SignatureTest(format, data) ==
    CASE format = "Jpeg" -> IsJpeg(data)
      [] format = "Png"  -> IsPng(data)
      [] format = "WebP" -> IsWebP(data)
      [] format = "Avif" -> IsAvif(data)
      [] format = "Bmp"  -> IsBmp(data)
      [] format = "Tiff" -> IsTiff(data)
      [] format = "Gif"  -> IsGif(data)
      [] format = "Ico"  -> IsIco(data)

RECURSIVE DetectFrom(_, _)
\* the chain of `if test { return Ok(format) }` from position k on
DetectFrom(k, data) ==
    IF k > Len(DetectOrder)
    THEN Err("InvalidFormat", "Unknown format - no matching file signature", "")
    ELSE LET t == SignatureTest(DetectOrder[k], data) IN
         IF t = "panic" THEN Panic
         ELSE IF t = "yes" THEN Ok(DetectOrder[k])
         ELSE DetectFrom(k + 1, data)

FormatDetector_detect_unguarded(data) ==
    DetectFrom(1, data)

FormatDetector_detect(data) ==
    IF Len(data) < MinDetectLen
    THEN Err("InvalidFormat", "Data too short for format detection", "")
    ELSE DetectFrom(1, data)

-----------------------------------------------------------------------------
(* Inputs of the detector: three 4-byte chunks, zero padding, cut at n *)

Heads ==
    { <<255, 216, 255, 224>>, <<137, 80, 78, 71>>, <<82, 73, 70, 70>>,
      <<66, 77, 0, 0>>, <<73, 73, 42, 0>>, <<77, 77, 0, 42>>,
      <<71, 73, 70, 56>>, <<0, 0, 1, 0>>, <<0, 1, 2, 3>>, <<0, 0, 0, 24>> }

Mids ==
    { <<13, 10, 26, 10>>, <<102, 116, 121, 112>>, <<55, 97, 0, 0>>,
      <<57, 97, 0, 0>>, <<0, 16, 74, 70>>, <<0, 0, 0, 0>> }

Tails ==
    { <<87, 69, 66, 80>>, <<97, 118, 105, 102>>, <<0, 0, 0, 0>> }

Padding ==
    [i \in 1..MaxDataLen |-> 0]

DetectInputs ==
    { SubSeq(h \o m \o t \o Padding, 1, n) :
        h \in Heads, m \in Mids, t \in Tails, n \in 0..MaxDataLen }

-----------------------------------------------------------------------------
(* ConversionOptions and its builder; quality is held in hundredths *)

NoOptions ==
    [tag |-> "None"]

ConversionOptions_default ==
    [tag |-> "Some", quality |-> 80, compression_level |-> 6]

\* the f32 value NaN: unordered, so outside every range, and kept by clamp
NaN ==
    -1000000

F32_clamp(x, min, max) ==
    IF x = NaN THEN NaN ELSE IF x < min THEN min ELSE IF x > max THEN max ELSE x

Builder_quality(options, q) ==
    [options EXCEPT !.quality = F32_clamp(q, 0, 100)]

Builder_compression_level(options, level) ==
    [options EXCEPT !.compression_level = IF level < 9 THEN level ELSE 9]

-----------------------------------------------------------------------------
(* Codecs: every codec is generated by impl_codec_stub *)

LossyFormats ==
    {"Jpeg", "WebP", "Avif"}

Codec_validate_format(format, data) ==
    FALSE

Codec_decode(format, data) ==
    Err("UnsupportedOperation", "decode not yet implemented", format)

Codec_encode(format, buffer, options) ==
    Err("UnsupportedOperation", "encode not yet implemented", format)

CodecEngine_supported_formats ==
    {"Jpeg", "Png", "WebP", "Avif", "Bmp", "Tiff", "Gif", "Ico"}

CodecEngine_supports_conversion(from, to) ==
    from \in CodecEngine_supported_formats /\ to \in CodecEngine_supported_formats

CodecEngine_validate_format_data(data, format) ==
    IF Len(data) = 0
    THEN Err("InvalidFormat", "Empty data for format", format)
    ELSE IF ~Codec_validate_format(format, data)
    THEN Err("InvalidFormat", "Data does not match format", format)
    ELSE Ok("unit")

CodecEngine_validate_encode_params_unchecked(format, options) ==
    Ok("unit")

CodecEngine_validate_encode_params(format, options) ==
    IF format \in LossyFormats /\ ~(options.quality \in 0..100)
    THEN Err("InvalidParameters", "Quality out of range [0.0, 1.0]", "")
    ELSE IF format \notin LossyFormats /\ options.compression_level > 9
    THEN Err("InvalidParameters", "Compression level out of range [0, 9]", "")
    ELSE Ok("unit")

\* Rgba8 -> Rgba8 conversion keeps the pixels and the dimensions
CodecEngine_convert_buffer(buffer) ==
    [buffer EXCEPT !.pixel_format = "Rgba8"]

CodecEngine_decode(data, format) ==
    LET v == CodecEngine_validate_format_data(data, format) IN
    IF IsErr(v) THEN v
    ELSE LET d == Codec_decode(format, data) IN
         IF IsErr(d) THEN d
         ELSE Ok(CodecEngine_convert_buffer(d.value))

\* encode together with the calls it made to the format's codec
CodecEngine_encode_traced(buffer, format, options) ==
    LET v == CodecEngine_validate_encode_params(format, options) IN
    IF IsErr(v) THEN [result |-> v, codec_calls |-> <<>>]
    ELSE [result |-> Codec_encode(format, CodecEngine_convert_buffer(buffer), options),
          codec_calls |-> <<[format |-> format, options |-> options]>>]

CodecEngine_encode(buffer, format, options) ==
    CodecEngine_encode_traced(buffer, format, options).result

-----------------------------------------------------------------------------
(* PerformanceMonitor / PerformanceCollector (performance.rs).  A monitor is
   its collector behind the RwLock; poisoned says a writer panicked while it
   held the lock.  Durations are whole milliseconds. *)

MaxHistoryEntries == 1000

\* the one field of PerformanceMetrics the collector ever writes
PerformanceMetrics_default ==
    [timing |-> [total_time_ms |-> 0]]

AccumulatedStats_default ==
    [total_operations |-> 0, total_processing_time_ms |-> 0,
     operation_stats |-> <<>>, error_count |-> 0]

PerformanceCollector_new ==
    [current_metrics |-> PerformanceMetrics_default, history |-> <<>>,
     accumulated_stats |-> AccumulatedStats_default, poisoned |-> FALSE]

PerformanceCollector_start_operation_unbounded(p, operation_name) ==
    LET snapshot == [metrics |-> p.current_metrics, operation |-> operation_name]
    IN [p EXCEPT !.history = Append(p.history, snapshot)]

PerformanceCollector_start_operation(p, operation_name) ==
    LET snapshot == [metrics |-> p.current_metrics, operation |-> operation_name]
        h == Append(p.history, snapshot)
    IN [p EXCEPT !.history = IF Len(h) > MaxHistoryEntries THEN Tail(h) ELSE h]

PerformanceCollector_record_conversion_result(p, duration_ms, success) ==
    [p EXCEPT !.accumulated_stats.total_operations = @ + 1,
              !.accumulated_stats.total_processing_time_ms = @ + duration_ms,
              !.accumulated_stats.error_count = IF success THEN @ ELSE @ + 1,
              !.current_metrics.timing.total_time_ms = duration_ms]

\* a - b in usize.  When b > a the build that checks overflow panics; the
\* build that does not yields 2^64 + (a - b), written here as the negative
\* number a - b, so that wrapping addition is the addition of the integers
UsizeSub(a, b) ==
    IF a >= b THEN [panic |-> FALSE, value |-> a - b]
    ELSE IF overflow_checks THEN [panic |-> TRUE, value |-> 0]
    ELSE [panic |-> FALSE, value |-> a - b]

\* the collector after record_batch_result, and whether the call panicked
\* (with the write lock held) after its first two updates
PerformanceCollector_record_batch_result(p, duration_ms, success_count, total_count) ==
    LET p1 == [p EXCEPT !.accumulated_stats.total_operations = @ + total_count,
                        !.accumulated_stats.total_processing_time_ms = @ + duration_ms]
        errors == UsizeSub(total_count, success_count)
    IN IF errors.panic
       THEN [collector |-> [p1 EXCEPT !.poisoned = TRUE], panic |-> TRUE]
       ELSE [collector |-> [p1 EXCEPT !.accumulated_stats.error_count = @ + errors.value],
             panic |-> FALSE]

PerformanceCollector_reset(p) ==
    [p EXCEPT !.current_metrics = PerformanceMetrics_default,
              !.history = <<>>,
              !.accumulated_stats = AccumulatedStats_default]

\* `if let Ok(mut collector) = self.collector.write()`: a poisoned lock is
\* skipped silently
PerformanceMonitor_start_measurement(p, operation_name) ==
    IF p.poisoned THEN p
    ELSE PerformanceCollector_start_operation(p, operation_name)

PerformanceMonitor_start_conversion(p, enabled, from, to) ==
    IF ~enabled THEN p
    ELSE PerformanceMonitor_start_measurement(p, <<"convert", from, to>>)

PerformanceMonitor_end_conversion_unguarded(p, enabled, duration_ms, success) ==
    IF p.poisoned THEN p
    ELSE PerformanceCollector_record_conversion_result(p, duration_ms, success)

PerformanceMonitor_end_conversion(p, enabled, duration_ms, success) ==
    IF ~enabled \/ p.poisoned THEN p
    ELSE PerformanceCollector_record_conversion_result(p, duration_ms, success)

PerformanceMonitor_start_batch_conversion(p, enabled, batch_size) ==
    IF ~enabled THEN p
    ELSE PerformanceMonitor_start_measurement(p, <<"batch_conversion", batch_size>>)

PerformanceMonitor_end_batch_conversion(p, enabled, duration_ms, success_count, total_count) ==
    IF ~enabled \/ p.poisoned THEN [collector |-> p, panic |-> FALSE]
    ELSE PerformanceCollector_record_batch_result(p, duration_ms, success_count,
                                                  total_count)

PerformanceMonitor_get_current_metrics(p, enabled) ==
    IF ~enabled \/ p.poisoned THEN PerformanceMetrics_default
    ELSE p.current_metrics

PerformanceMonitor_reset(p) ==
    IF p.poisoned THEN p ELSE PerformanceCollector_reset(p)

PerformanceMonitor_calculate_throughput(stats) ==
    IF stats.total_processing_time_ms > 0
    THEN Ratio(stats.total_operations * 1000, stats.total_processing_time_ms)
    ELSE Ratio(0, 1)

\* 1.0 - error_count / total_operations, kept as the fraction that is
\* subtracted from one (a negative error_count stands for 2^64 + error_count)
PerformanceMonitor_calculate_success_rate(stats) ==
    IF stats.total_operations > 0
    THEN [one_minus |-> Ratio(stats.error_count, stats.total_operations)]
    ELSE [one_minus |-> Ratio(0, 1)]

PerformanceMonitor_generate_executive_summary(p) ==
    LET stats == p.accumulated_stats
        key_metrics ==
            [average_response_time_ms |->
                 IF stats.total_operations > 0
                 THEN Ratio(stats.total_processing_time_ms, stats.total_operations)
                 ELSE Ratio(0, 1),
             throughput_ops_per_sec |-> PerformanceMonitor_calculate_throughput(stats),
             success_rate |-> PerformanceMonitor_calculate_success_rate(stats)]
    IN [overall_performance_score |-> 85,
        key_metrics |-> key_metrics,
        key_findings |-> <<stats.total_operations,
                           key_metrics.average_response_time_ms,
                           key_metrics.success_rate>>]

\* one entry for each operation of accumulated_stats.operation_stats
PerformanceMonitor_generate_detailed_statistics(p) ==
    LET ops == p.accumulated_stats.operation_stats
    IN [operation_stats |->
            [k \in 1..Len(ops) |->
                [operation_name |-> ops[k].name,
                 execution_count |-> ops[k].count,
                 average_time_ms |-> IF ops[k].count > 0
                                     THEN Ratio(ops[k].total_time_ms, ops[k].count)
                                     ELSE Ratio(0, 1),
                 success_rate |-> IF ops[k].count > 0
                                  THEN Ratio(ops[k].success_count, ops[k].count)
                                  ELSE Ratio(0, 1)]],
        system_resource_stats |-> "fixed"]

PerformanceMonitor_generate_recommendations(p) ==
    <<"ParallelizationOptimization", "MemoryOptimization">>

\* generate_report; report_id, generated_at and analysis_period are read from
\* the clock and are left out.  `self.collector.read().unwrap()` panics on a
\* poisoned lock
PerformanceMonitor_generate_report(p, enabled) ==
    IF ~enabled
    THEN Err("PerformanceError", "Performance monitoring is disabled", "")
    ELSE IF p.poisoned THEN Panic
    ELSE Ok([executive_summary |-> PerformanceMonitor_generate_executive_summary(p),
             detailed_statistics |-> PerformanceMonitor_generate_detailed_statistics(p),
             optimization_recommendations |->
                 PerformanceMonitor_generate_recommendations(p)])

-----------------------------------------------------------------------------
(* FormatConverter *)

ConversionStats_default ==
    [total_conversions |-> 0, successful_conversions |-> 0,
     failed_conversions |-> 0, total_processing_time_ms |-> 0,
     total_input_bytes |-> 0,
     total_output_bytes |-> 0, format_usage |-> <<>>]

\* a converter is its statistics and its monitor; the codec engine is stateless
FormatConverter_new(cfg) ==
    [stats |-> ConversionStats_default, perf |-> PerformanceCollector_new]

FormatConverter_get_default_options_fixed(cfg) ==
    ConversionOptions_default

FormatConverter_get_default_options(cfg) ==
    CASE cfg.default_quality_strategy = "PreserveOriginal" ->
            Builder_quality(ConversionOptions_default, 95)
      [] cfg.default_quality_strategy = "OptimizeSize" ->
            Builder_compression_level(Builder_quality(ConversionOptions_default, 75), 9)
      [] cfg.default_quality_strategy = "Balanced" ->
            Builder_compression_level(Builder_quality(ConversionOptions_default, 85), 6)
      [] cfg.default_quality_strategy = "MaxQuality" ->
            Builder_compression_level(Builder_quality(ConversionOptions_default, 100), 0)

\* elapsed_ms is what start_time.elapsed() yields when the call ends; the
\* clock stands still inside a conversion unless an action sets it
ConversionContext(cfg, data, from, to, options) ==
    [from_format |-> from, to_format |-> to, input_size |-> Len(data),
     options |-> IF options = NoOptions
                 THEN FormatConverter_get_default_options(cfg) ELSE options,
     enable_monitoring |-> cfg.enable_performance_monitoring,
     elapsed_ms |-> 0]

FormatConverter_validate_conversion_request_no_empty_check(context) ==
    IF ~CodecEngine_supports_conversion(context.from_format, context.to_format)
    THEN Err("UnsupportedOperation", "Conversion is not supported", "")
    ELSE Ok("unit")

FormatConverter_validate_conversion_request(context) ==
    IF ~CodecEngine_supports_conversion(context.from_format, context.to_format)
    THEN Err("UnsupportedOperation", "Conversion is not supported", "")
    ELSE IF context.input_size = 0
    THEN Err("InvalidParameters", "Empty input data", "")
    ELSE Ok("unit")

ConvertedImage_new_unguarded(data, dimensions, format, original_size) ==
    [data |-> data, dimensions |-> dimensions, format |-> format,
     original_size |-> original_size, converted_size |-> Len(data),
     compression_ratio |-> Ratio(Len(data), original_size),
     quality_metrics |-> NoResult]

ConvertedImage_new(data, dimensions, format, original_size) ==
    [data |-> data, dimensions |-> dimensions, format |-> format,
     original_size |-> original_size, converted_size |-> Len(data),
     compression_ratio |-> IF original_size > 0
                           THEN Ratio(Len(data), original_size)
                           ELSE Ratio(1, 1),
     quality_metrics |-> NoResult]

\* steps 3 and 4 of execute_conversion: the value returned once the codec
\* engine has decoded image_buffer and encoded output_data
ConversionResult(context, image_buffer, output_data) ==
    Ok(ConvertedImage_new(output_data, image_buffer.dimensions,
                          context.to_format, context.input_size))

\* decode, then encode, then build the ConvertedImage
ConversionPipeline(data, context) ==
    LET dec == CodecEngine_decode(data, context.from_format) IN
    IF IsErr(dec) THEN [result |-> dec, encode_calls |-> 0]
    ELSE LET enc == CodecEngine_encode(dec.value, context.to_format, context.options) IN
         [result |-> IF IsErr(enc) THEN enc
                     ELSE ConversionResult(context, dec.value, enc.value),
          encode_calls |-> 1]

FormatConverter_execute_conversion(conv, cfg, data, context) ==
    LET p1 == IF context.enable_monitoring
              THEN PerformanceMonitor_start_conversion(conv.perf,
                       cfg.enable_performance_monitoring,
                       context.from_format, context.to_format)
              ELSE conv.perf
        run == ConversionPipeline(data, context)
        p2 == IF context.enable_monitoring
              THEN PerformanceMonitor_end_conversion(p1,
                       cfg.enable_performance_monitoring, context.elapsed_ms,
                       IsOk(run.result))
              ELSE p1
    IN [perf |-> p2, result |-> run.result, encode_calls |-> run.encode_calls]

FormatConverter_update_conversion_stats_successes(stats, context, result) ==
    LET pair == <<context.from_format, context.to_format>>
        fu == stats.format_usage
    IN [stats EXCEPT
          !.total_conversions = @ + 1,
          !.total_input_bytes = @ + context.input_size,
          !.successful_conversions = IF IsOk(result) THEN @ + 1 ELSE @,
          !.total_processing_time_ms = IF IsOk(result) THEN @ + context.elapsed_ms ELSE @,
          !.total_output_bytes = IF IsOk(result) THEN @ + Len(result.value.data) ELSE @,
          !.failed_conversions = IF IsOk(result) THEN @ ELSE @ + 1,
          !.format_usage = IF ~IsOk(result) THEN fu
                           ELSE IF pair \in DOMAIN fu
                           THEN [fu EXCEPT ![pair] = @ + 1]
                           ELSE fu @@ (pair :> 1)]

FormatConverter_update_conversion_stats(stats, context, result) ==
    LET pair == <<context.from_format, context.to_format>>
        fu == stats.format_usage
    IN [stats EXCEPT
          !.total_conversions = @ + 1,
          !.total_input_bytes = @ + context.input_size,
          !.successful_conversions = IF IsOk(result) THEN @ + 1 ELSE @,
          !.total_processing_time_ms = IF IsOk(result) THEN @ + context.elapsed_ms ELSE @,
          !.total_output_bytes = IF IsOk(result) THEN @ + Len(result.value.data) ELSE @,
          !.failed_conversions = IF IsOk(result) THEN @ ELSE @ + 1,
          !.format_usage = IF pair \in DOMAIN fu
                           THEN [fu EXCEPT ![pair] = @ + 1]
                           ELSE fu @@ (pair :> 1)]

\* the whole of convert_format on the converter conv: the new converter state,
\* the returned value, and how often the codec engine was entered
FormatConverter_convert_format(conv, cfg, data, from, to, options) ==
    LET context == ConversionContext(cfg, data, from, to, options)
        v == FormatConverter_validate_conversion_request(context)
    IN IF IsErr(v)
       THEN [conv |-> conv, result |-> v, decode_calls |-> 0, encode_calls |-> 0,
             options_used |-> context.options]
       ELSE LET ex == FormatConverter_execute_conversion(conv, cfg, data, context) IN
            [conv |-> [stats |-> FormatConverter_update_conversion_stats(
                                     conv.stats, context, ex.result),
                       perf |-> ex.perf],
             result |-> ex.result,
             decode_calls |-> 1,
             encode_calls |-> ex.encode_calls,
             options_used |-> context.options]

\* the pairs get_most_used_conversion can return: max_by_key over the
\* HashMap's iteration order yields any pair of maximal count
FormatConverter_get_most_used_conversion(stats) ==
    LET fu == stats.format_usage IN
    IF DOMAIN fu = {} THEN {NoResult}
    ELSE {Some(pair) : pair \in {q \in DOMAIN fu : \A o \in DOMAIN fu : fu[o] <= fu[q]}}

FormatConverter_get_conversion_statistics_over_total(stats, metrics, most_used) ==
    [total_conversions |-> stats.total_conversions,
     successful_conversions |-> stats.successful_conversions,
     success_rate |-> IF stats.total_conversions > 0
                      THEN Ratio(stats.successful_conversions, stats.total_conversions)
                      ELSE Ratio(0, 1),
     average_processing_time_ms |->
         IF stats.total_conversions > 0
         THEN Ratio(stats.total_processing_time_ms, stats.total_conversions)
         ELSE Ratio(0, 1),
     total_bytes_processed |-> stats.total_input_bytes,
     compression_ratio |-> IF stats.total_input_bytes > 0
                           THEN Ratio(stats.total_output_bytes, stats.total_input_bytes)
                           ELSE Ratio(1, 1),
     most_used_conversion |-> most_used,
     performance_metrics |-> metrics]

\* get_conversion_statistics, given the monitor's current metrics and the
\* pair get_most_used_conversion returned
FormatConverter_get_conversion_statistics(stats, metrics, most_used) ==
    [total_conversions |-> stats.total_conversions,
     successful_conversions |-> stats.successful_conversions,
     success_rate |-> IF stats.total_conversions > 0
                      THEN Ratio(stats.successful_conversions, stats.total_conversions)
                      ELSE Ratio(0, 1),
     average_processing_time_ms |->
         IF stats.successful_conversions > 0
         THEN Ratio(stats.total_processing_time_ms, stats.successful_conversions)
         ELSE Ratio(0, 1),
     total_bytes_processed |-> stats.total_input_bytes,
     compression_ratio |-> IF stats.total_input_bytes > 0
                           THEN Ratio(stats.total_output_bytes, stats.total_input_bytes)
                           ELSE Ratio(1, 1),
     most_used_conversion |-> most_used,
     performance_metrics |-> metrics]

RECURSIVE CollectOk(_), CollectErr(_, _)
\* converted_images of aggregate_batch_results
CollectOk(results) ==
    IF results = <<>> THEN <<>>
    ELSE IF IsOk(Head(results))
         THEN <<Head(results).value>> \o CollectOk(Tail(results))
         ELSE CollectOk(Tail(results))

\* errors of aggregate_batch_results: (index, error) in index order
CollectErr(results, index) ==
    IF results = <<>> THEN <<>>
    ELSE IF IsOk(Head(results))
         THEN CollectErr(Tail(results), index + 1)
         ELSE <<[index |-> index, error |-> Head(results).error]>>
                  \o CollectErr(Tail(results), index + 1)

FirstError_latest(errors) ==
    errors[Len(errors)].error

\* errors.into_iter().next().unwrap().1
FirstError(errors) ==
    errors[1].error

FormatConverter_aggregate_batch_results(results) ==
    LET converted_images == CollectOk(results)
        errors == CollectErr(results, 0)
    IN IF errors # <<>>
       THEN [tag |-> "Err",
             error |-> [kind |-> "BatchProcessingFailed",
                        successful_count |-> Len(converted_images),
                        failed_count |-> Len(errors),
                        first_error |-> FirstError(errors)]]
       ELSE Ok(converted_images)

-----------------------------------------------------------------------------
(* ImageBuffer<P>: pixels, dimensions, pixel_format (codecs.rs) *)

MaxDim == 2

MaxPixels == 4

\* u32 arithmetic is carried out on 16-bit halves, so that no intermediate
\* value leaves the range of the model checker's integers
HalfWord ==
    65536

Hi(n) ==
    n \div HalfWord

Lo(n) ==
    n % HalfWord

\* the outcome of a u32 operation that overflowed: a panic when the build
\* checks overflow, the wrapped value when it does not
U32Overflow(wrapped) ==
    IF overflow_checks THEN [panic |-> TRUE, value |-> 0]
    ELSE [panic |-> FALSE, value |-> wrapped]

\* a * b in u32, with a * b = Hi(a)*Hi(b)*2^32 + upper * 2^16 + Lo(low)
U32Mul(a, b) ==
    LET low == Lo(a) * Lo(b)
        upper == Hi(a) * Lo(b) + Lo(a) * Hi(b) + Hi(low)
        wrapped == Lo(upper) * HalfWord + Lo(low)
    IN IF Hi(a) * Hi(b) > 0 \/ Hi(upper) > 0
       THEN U32Overflow(wrapped)
       ELSE [panic |-> FALSE, value |-> wrapped]

\* a + b in u32
U32Add(a, b) ==
    LET low == Lo(a) + Lo(b)
        upper == Hi(a) + Hi(b) + Hi(low)
        wrapped == Lo(upper) * HalfWord + Lo(low)
    IN IF Hi(upper) > 0
       THEN U32Overflow(wrapped)
       ELSE [panic |-> FALSE, value |-> wrapped]

NoBuffer ==
    [tag |-> "None"]

ImageBuffer(pixels, width, height, pixel_format) ==
    [pixels |-> pixels, dimensions |-> [width |-> width, height |-> height],
     pixel_format |-> pixel_format]

\* Vec::with_capacity reserves room and holds no element
Vec_with_capacity(capacity) ==
    <<>>

ImageBuffer_new(width, height, pixel_format) ==
    LET capacity == U32Mul(width, height) IN
    IF capacity.panic THEN Panic
    ELSE Ok(ImageBuffer(Vec_with_capacity(capacity.value), width, height, pixel_format))

ImageBuffer_from_raw(width, height, data, pixel_format) ==
    LET expected_len == U32Mul(width, height) IN
    IF expected_len.panic THEN Panic
    ELSE IF Len(data) # expected_len.value
    THEN Err("InvalidParameters", "Data length does not match dimensions",
             <<Len(data), width, height, expected_len.value>>)
    ELSE Ok(ImageBuffer(data, width, height, pixel_format))

\* (y * width + x) as usize, evaluated in u32
PixelIndex(b, x, y) ==
    LET row == U32Mul(y, b.dimensions.width) IN
    IF row.panic THEN row ELSE U32Add(row.value, x)

ImageBuffer_get_pixel(b, x, y) ==
    IF x >= b.dimensions.width \/ y >= b.dimensions.height THEN NoResult
    ELSE LET index == PixelIndex(b, x, y) IN
         IF index.panic THEN Panic
         ELSE IF index.value < Len(b.pixels) THEN Some(b.pixels[index.value + 1])
         ELSE NoResult

\* the buffer after the call and the returned Result<()>
ImageBuffer_put_pixel(b, x, y, pixel) ==
    IF x >= b.dimensions.width \/ y >= b.dimensions.height
    THEN [buffer |-> b,
          result |-> Err("InvalidParameters", "Pixel coordinates out of bounds", <<x, y>>)]
    ELSE LET index == PixelIndex(b, x, y) IN
         IF index.panic THEN [buffer |-> b, result |-> Panic]
         ELSE IF index.value < Len(b.pixels)
         THEN [buffer |-> [b EXCEPT !.pixels[index.value + 1] = pixel],
               result |-> Ok("unit")]
         ELSE [buffer |-> b,
               result |-> Err("InvalidParameters", "Buffer not properly initialized", "")]

\* as_mut_slice()[i] = pixel ; indexing past the end of the slice panics
ImageBuffer_write_slice(b, i, pixel) ==
    IF i < Len(b.pixels)
    THEN [buffer |-> [b EXCEPT !.pixels[i + 1] = pixel], result |-> Ok("unit")]
    ELSE [buffer |-> b, result |-> Panic]

\* inputs of the buffer operations
Pixels ==
    {0, 1}

Dims ==
    (0..MaxDim) \cup {65536}

\* dimensions whose product wraps to 2 in u32 (641 * 13400834 = 2 * 2^32 + 2),
\* and a row below that height whose offset wraps to 1
\* (6700417 * 641 = 2^32 + 1)
WrapWidth ==
    641

WrapHeight ==
    13400834

WrapRow ==
    6700417

NoBufferCall ==
    [op |-> "none"]

BufferIdle ==
    /\ overflow_checks = FALSE
    /\ buf = NoBuffer
    /\ buf_ret = NoBufferCall

-----------------------------------------------------------------------------
(* ImageError: category and is_retryable, by variant (error.rs) *)

ImageErrorKinds ==
    {"InvalidFormat", "UnsupportedFormat", "FormatDetectionFailed",
     "DecodeError", "EncodeError", "CodecInitializationFailed",
     "InvalidParameters", "InvalidDimensions", "InvalidPixelFormat",
     "ConfigurationError",
     "MemoryError", "ResourceExhausted", "SystemLimitExceeded",
     "UnsupportedOperation", "OperationCancelled", "OperationTimeout",
     "BatchProcessingFailed", "ParallelProcessingError",
     "PerformanceError", "QualityAssessmentFailed",
     "IoError", "ExternalLibraryError", "WasmBindingError", "JsInteropError"}

ImageError_category(kind) ==
    CASE kind \in {"InvalidFormat", "UnsupportedFormat", "FormatDetectionFailed"}
            -> "Format"
      [] kind \in {"DecodeError", "EncodeError", "CodecInitializationFailed"}
            -> "Codec"
      [] kind \in {"InvalidParameters", "InvalidDimensions", "InvalidPixelFormat",
                   "ConfigurationError"}
            -> "Parameter"
      [] kind \in {"MemoryError", "ResourceExhausted", "SystemLimitExceeded"}
            -> "Resource"
      [] kind \in {"UnsupportedOperation", "OperationCancelled", "OperationTimeout"}
            -> "Operation"
      [] kind \in {"BatchProcessingFailed", "ParallelProcessingError"}
            -> "Batch"
      [] kind \in {"PerformanceError", "QualityAssessmentFailed"}
            -> "Performance"
      [] kind = "IoError" -> "Io"
      [] kind = "ExternalLibraryError" -> "System"
      [] kind \in {"WasmBindingError", "JsInteropError"} -> "Wasm"

ImageError_is_retryable_by_default(kind) ==
    CASE kind \in {"InvalidFormat", "UnsupportedFormat", "InvalidParameters",
                   "InvalidDimensions", "InvalidPixelFormat",
                   "UnsupportedOperation", "ConfigurationError",
                   "OperationCancelled"}
            -> FALSE
      [] OTHER -> TRUE

ImageError_is_retryable(kind) ==
    CASE kind \in {"OperationTimeout", "MemoryError", "ResourceExhausted",
                   "IoError", "ExternalLibraryError"}
            -> TRUE
      [] kind \in {"InvalidFormat", "UnsupportedFormat", "InvalidParameters",
                   "InvalidDimensions", "InvalidPixelFormat",
                   "UnsupportedOperation", "ConfigurationError",
                   "OperationCancelled"}
            -> FALSE
      [] OTHER -> FALSE

-----------------------------------------------------------------------------
(* Inputs of the converter *)

\* a well-formed 2x2 RGBA PNG file (signature, IHDR, IDAT, IEND)
Png2x2 ==
    <<137, 80, 78, 71, 13, 10, 26, 10, 0, 0, 0, 13, 73, 72, 68, 82,
      0, 0, 0, 2, 0, 0, 0, 2, 8, 6, 0, 0, 0, 114, 182, 13, 36,
      0, 0, 0, 18, 73, 68, 65, 84, 120, 218, 99, 248, 207, 192, 240, 31,
      12, 129, 52, 24, 0, 0, 73, 200, 9, 247, 3, 217, 100, 241,
      0, 0, 0, 0, 73, 69, 78, 68, 174, 66, 96, 130>>

\* the JFIF header used by the repository's tests
JpegHeader ==
    <<255, 216, 255, 224, 0, 16, 74, 70>>

SampleImages ==
    {<<>>, Png2x2, JpegHeader}

(* the items of a batch: one input that request validation rejects and one
   that reaches the codec engine *)
BatchImages ==
    {<<>>, JpegHeader}

\* ConverterConfig::default, with_high_quality, and two configurations of
\* ConverterConfigBuilder (parallel and sequential, both monitored): every
\* quality strategy and every combination of parallel and monitoring occurs
Configs ==
    { [enable_parallel |-> TRUE, enable_performance_monitoring |-> FALSE,
       enable_quality_assessment |-> FALSE, default_quality_strategy |-> "Balanced"],
      [enable_parallel |-> TRUE, enable_performance_monitoring |-> TRUE,
       enable_quality_assessment |-> FALSE,
       default_quality_strategy |-> "PreserveOriginal"],
      [enable_parallel |-> FALSE, enable_performance_monitoring |-> FALSE,
       enable_quality_assessment |-> TRUE, default_quality_strategy |-> "MaxQuality"],
      [enable_parallel |-> FALSE, enable_performance_monitoring |-> TRUE,
       enable_quality_assessment |-> FALSE, default_quality_strategy |-> "OptimizeSize"] }

\* ConversionTask values of this run: the workload pair with the strategy's
\* default options, and the reverse pair with explicit options
Tasks ==
    { [from_format |-> workload.a, to_format |-> workload.b, options |-> NoOptions],
      [from_format |-> workload.b, to_format |-> workload.a,
       options |-> Builder_quality(ConversionOptions_default, 30)] }

SeqsUpTo(S, n) ==
    UNION { [1..k -> S] : k \in 0..n }

NoCall ==
    [op |-> "none"]

NoBatch ==
    [images |-> <<>>, tasks |-> <<>>, results |-> <<>>, order |-> <<>>,
     decode_calls |-> 0]

self_converter ==
    [stats |-> conversion_stats, perf |-> perf]

\* the wasm wrapper at rest, holding its converter
WasmIdle ==
    inner = "Some"

TypesIdle ==
    /\ builder = ConversionOptions_default
    /\ ret = NoCall

-----------------------------------------------------------------------------
(* State machine of one FormatConverter *)

Init ==
    /\ config \in Configs
    /\ workload \in [a : ImageFormat, b : ImageFormat]
    /\ conversion_stats = FormatConverter_new(config).stats
    /\ perf = FormatConverter_new(config).perf
    /\ pc = "idle"
    /\ batch = NoBatch
    /\ last = NoCall
    /\ budget = MaxConversions
    /\ det_data = <<>>
    /\ det_result = NoResult
    /\ BufferIdle
    /\ TypesIdle
    /\ WasmIdle

\* converter.convert_format(data, from, to, options)
ConvertFormat(data, task) ==
    /\ pc = "idle"
    /\ budget >= 1
    /\ LET r == FormatConverter_convert_format(self_converter, config, data,
                    task.from_format, task.to_format, task.options)
       IN /\ conversion_stats' = r.conv.stats
          /\ perf' = r.conv.perf
          /\ last' = [op |-> "convert_format", data |-> data, task |-> task,
                      result |-> r.result,
                      pre_stats |-> conversion_stats, pre_perf |-> perf,
                      decode_calls |-> r.decode_calls,
                      encode_calls |-> r.encode_calls,
                      options_used |-> r.options_used]
    /\ budget' = budget - 1
    /\ UNCHANGED <<config, workload, pc, batch, outside_converter>>

BatchObservation(images, tasks, results, order, decode_calls, result, pre_stats, pre_perf) ==
    [op |-> "batch_convert", images |-> images, tasks |-> tasks,
     results |-> results, order |-> order, decode_calls |-> decode_calls,
     result |-> result, pre_stats |-> pre_stats, pre_perf |-> pre_perf,
     parallel |-> config.enable_parallel]

Min(x, y) ==
    IF x <= y THEN x ELSE y

\* images.len() != conversion_tasks.len() is rejected
BatchLengthsMatch_unchecked(images, tasks) ==
    TRUE

BatchLengthsMatch(images, tasks) ==
    Len(images) = Len(tasks)

\* images.into_iter().zip(tasks.into_iter()) yields this many items
ZipLen(images, tasks) ==
    Min(Len(images), Len(tasks))

\* execute_sequential_batch as a function of its arguments: the outcome
\* vector of the loop, each call made on the converter the previous one left
RECURSIVE FormatConverter_execute_sequential_batch(_, _, _, _)
FormatConverter_execute_sequential_batch(conv, cfg, images, tasks) ==
    IF images = <<>> \/ tasks = <<>> THEN <<>>
    ELSE LET r == FormatConverter_convert_format(conv, cfg, Head(images),
                      Head(tasks).from_format, Head(tasks).to_format,
                      Head(tasks).options)
         IN <<r.result>> \o FormatConverter_execute_sequential_batch(
                                r.conv, cfg, Tail(images), Tail(tasks))

FormatConverter_execute_parallel_batch_as_completed(cfg, images, tasks) ==
    [i \in 1..ZipLen(images, tasks) |->
        LET k == ZipLen(images, tasks) + 1 - i IN
        FormatConverter_convert_format(FormatConverter_new(cfg), cfg, images[k],
            tasks[k].from_format, tasks[k].to_format, tasks[k].options).result]

\* execute_parallel_batch as a function of its arguments: the outcome vector
\* collected from the indexed parallel iterator, each item converted on a
\* converter of its own
FormatConverter_execute_parallel_batch(cfg, images, tasks) ==
    [i \in 1..ZipLen(images, tasks) |->
        FormatConverter_convert_format(FormatConverter_new(cfg), cfg, images[i],
            tasks[i].from_format, tasks[i].to_format, tasks[i].options).result]

\* the value batch_convert returns on the converter conv configured with cfg
FormatConverter_batch_convert(conv, cfg, images, tasks) ==
    IF Len(images) # Len(tasks)
    THEN Err("InvalidParameters", "Images count does not match tasks count", "")
    ELSE IF images = <<>> THEN Ok(<<>>)
    ELSE FormatConverter_aggregate_batch_results(
             IF cfg.enable_parallel
             THEN FormatConverter_execute_parallel_batch(cfg, images, tasks)
             ELSE FormatConverter_execute_sequential_batch(conv, cfg, images, tasks))

\* converter.batch_convert(images, tasks): the length check, the empty batch,
\* and the hand-over to the parallel or the sequential executor
BatchConvert(images, tasks) ==
    /\ pc = "idle"
    /\ budget >= 1
    /\ UNCHANGED <<config, workload, conversion_stats, perf, outside_converter>>
    /\ IF ~BatchLengthsMatch(images, tasks)
       THEN /\ last' = BatchObservation(images, tasks, <<>>, <<>>, 0,
                           Err("InvalidParameters",
                               "Images count does not match tasks count", ""),
                           conversion_stats, perf)
            /\ budget' = budget - 1
            /\ UNCHANGED <<pc, batch>>
       ELSE IF images = <<>>
       THEN /\ last' = BatchObservation(images, tasks, <<>>, <<>>, 0, Ok(<<>>),
                           conversion_stats, perf)
            /\ budget' = budget - 1
            /\ UNCHANGED <<pc, batch>>
       ELSE /\ pc' = IF config.enable_parallel THEN "par" ELSE "seq"
            /\ batch' = [images |-> images, tasks |-> tasks,
                         results |-> [i \in 1..ZipLen(images, tasks) |-> NoResult],
                         order |-> <<>>, decode_calls |-> 0,
                         pre_stats |-> conversion_stats, pre_perf |-> perf]
            /\ last' = NoCall
            /\ budget' = budget - ZipLen(images, tasks)

\* the slot of the results vector that receives the outcome of item i:
\* zip / map / collect over indexed iterators keeps the input position
ResultSlot_on_completion(i, order) ==
    Len(order) + 1

ResultSlot(i, order) ==
    i

\* the item the sequential loop converts next
SeqNext_fail_fast(b) ==
    IF \E k \in 1..Len(b.order) : IsErr(b.results[k]) THEN Len(b.results) + 1
    ELSE Len(b.order) + 1

SeqNext(b) ==
    Len(b.order) + 1

\* one iteration of the loop of execute_sequential_batch
SequentialStep ==
    /\ pc = "seq"
    /\ SeqNext(batch) <= Len(batch.results)
    /\ LET i == SeqNext(batch)
           r == FormatConverter_convert_format(self_converter, config,
                    batch.images[i], batch.tasks[i].from_format,
                    batch.tasks[i].to_format, batch.tasks[i].options)
       IN /\ conversion_stats' = r.conv.stats
          /\ perf' = r.conv.perf
          /\ batch' = [batch EXCEPT !.results[i] = r.result,
                                    !.order = Append(@, i),
                                    !.decode_calls = @ + r.decode_calls]
    /\ UNCHANGED <<config, workload, pc, last, budget, outside_converter>>

\* one item of execute_parallel_batch, run by some worker on a converter of
\* its own: FormatConverter::new(self.config.clone())
ParallelWorker(i) ==
    /\ pc = "par"
    /\ i \in 1..Len(batch.results)
    /\ i \notin {batch.order[k] : k \in 1..Len(batch.order)}
    /\ LET local_converter == FormatConverter_new(config)
           r == FormatConverter_convert_format(local_converter, config,
                    batch.images[i], batch.tasks[i].from_format,
                    batch.tasks[i].to_format, batch.tasks[i].options)
       IN batch' = [batch EXCEPT !.results[ResultSlot(i, batch.order)] = r.result,
                                 !.order = Append(@, i),
                                 !.decode_calls = @ + r.decode_calls]
    /\ UNCHANGED <<config, workload, conversion_stats, perf, pc, last, budget, outside_converter>>

BatchItemsLeft(b) ==
    IF pc = "seq" THEN SeqNext(b) <= Len(b.results)
    ELSE Len(b.order) < Len(b.results)

\* the executor returned: aggregate_batch_results and the return of batch_convert
BatchReturn ==
    /\ pc \in {"seq", "par"}
    /\ ~BatchItemsLeft(batch)
    /\ last' = BatchObservation(batch.images, batch.tasks, batch.results,
                   batch.order, batch.decode_calls,
                   FormatConverter_aggregate_batch_results(
                       SelectSeq(batch.results, LAMBDA x : x # NoResult)),
                   batch.pre_stats, batch.pre_perf)
    /\ pc' = "idle"
    /\ batch' = NoBatch
    /\ UNCHANGED <<config, workload, conversion_stats, perf, budget, outside_converter>>

Next ==
    \/ \E data \in SampleImages, task \in Tasks : ConvertFormat(data, task)
    \/ \E images \in SeqsUpTo(BatchImages, Min(MaxBatch, budget)),
          tasks \in SeqsUpTo(Tasks, Min(MaxBatch, budget)) : BatchConvert(images, tasks)
    \/ SequentialStep
    \/ \E i \in 1..MaxBatch : ParallelWorker(i)
    \/ BatchReturn

Spec ==
    Init /\ [][Next]_vars

-----------------------------------------------------------------------------
(* FormatDetector::detect applied to the bounded inputs *)

InitDetect ==
    /\ config \in {c \in Configs : c.enable_parallel /\ ~c.enable_performance_monitoring}
    /\ workload = [a |-> "Png", b |-> "Jpeg"]
    /\ conversion_stats = FormatConverter_new(config).stats
    /\ perf = FormatConverter_new(config).perf
    /\ pc = "idle"
    /\ batch = NoBatch
    /\ last = NoCall
    /\ budget = 0
    /\ det_data = <<>>
    /\ det_result = NoResult
    /\ BufferIdle
    /\ TypesIdle
    /\ WasmIdle

Detect(data) ==
    /\ det_data' = data
    /\ det_result' = FormatDetector_detect(data)
    /\ UNCHANGED outside_detector

NextDetect ==
    \E data \in DetectInputs : Detect(data)

SpecDetect ==
    InitDetect /\ [][NextDetect]_vars

-----------------------------------------------------------------------------
(* One ImageBuffer under its constructors and pixel operations *)

\* the converter and the detector at rest, for the specifications of the
\* library's other types
ConverterIdle ==
    /\ config = [enable_parallel |-> TRUE, enable_performance_monitoring |-> FALSE,
                 enable_quality_assessment |-> FALSE,
                 default_quality_strategy |-> "Balanced"]
    /\ workload = [a |-> "Png", b |-> "Jpeg"]
    /\ conversion_stats = FormatConverter_new(config).stats
    /\ perf = FormatConverter_new(config).perf
    /\ pc = "idle"
    /\ batch = NoBatch
    /\ last = NoCall
    /\ budget = 0

DetectIdle ==
    /\ det_data = <<>>
    /\ det_result = NoResult

InitBuffer ==
    /\ ConverterIdle
    /\ DetectIdle
    /\ TypesIdle
    /\ WasmIdle
    /\ overflow_checks \in BOOLEAN
    /\ buf = NoBuffer
    /\ buf_ret = NoBufferCall

\* ImageBuffer::new(width, height, Rgba8): the run's buffer, once
BufferNew(width, height) ==
    /\ buf = NoBuffer
    /\ LET r == ImageBuffer_new(width, height, "Rgba8") IN
       /\ buf' = IF IsOk(r) THEN r.value ELSE buf
       /\ buf_ret' = [op |-> "new", width |-> width, height |-> height,
                      data |-> <<>>, result |-> r]
    /\ UNCHANGED <<overflow_checks, outside_buffer>>

\* ImageBuffer::from_raw(width, height, data, Rgba8): the run's buffer, once
BufferFromRaw(width, height, data) ==
    /\ buf = NoBuffer
    /\ LET r == ImageBuffer_from_raw(width, height, data, "Rgba8") IN
       /\ buf' = IF IsOk(r) THEN r.value ELSE buf
       /\ buf_ret' = [op |-> "from_raw", width |-> width, height |-> height,
                      data |-> data, result |-> r]
    /\ UNCHANGED <<overflow_checks, outside_buffer>>

GetPixel(x, y) ==
    /\ buf # NoBuffer
    /\ buf_ret' = [op |-> "get_pixel", x |-> x, y |-> y,
                   result |-> ImageBuffer_get_pixel(buf, x, y), pre |-> buf]
    /\ UNCHANGED <<buf, overflow_checks, outside_buffer>>

PutPixel(x, y, pixel) ==
    /\ buf # NoBuffer
    /\ LET r == ImageBuffer_put_pixel(buf, x, y, pixel) IN
       /\ buf' = r.buffer
       /\ buf_ret' = [op |-> "put_pixel", x |-> x, y |-> y, pixel |-> pixel,
                      result |-> r.result, pre |-> buf]
    /\ UNCHANGED <<overflow_checks, outside_buffer>>

WriteSlice(i, pixel) ==
    /\ buf # NoBuffer
    /\ LET r == ImageBuffer_write_slice(buf, i, pixel) IN
       /\ buf' = r.buffer
       /\ buf_ret' = [op |-> "as_mut_slice", index |-> i, pixel |-> pixel,
                      result |-> r.result, pre |-> buf]
    /\ UNCHANGED <<overflow_checks, outside_buffer>>

NextBuffer ==
    \/ \E width \in Dims, height \in Dims : BufferNew(width, height)
    \/ \E width \in Dims \cup {WrapWidth}, height \in Dims \cup {WrapHeight},
          data \in SeqsUpTo(Pixels, MaxPixels) :
          BufferFromRaw(width, height, data)
    \/ \E x \in Dims, y \in Dims : GetPixel(x, y)
    \/ \E x \in Dims, y \in Dims \cup {WrapRow}, pixel \in Pixels :
          PutPixel(x, y, pixel)
    \/ \E i \in 0..MaxPixels, pixel \in Pixels : WriteSlice(i, pixel)

SpecBuffer ==
    InitBuffer /\ [][NextBuffer]_vars

-----------------------------------------------------------------------------
(* The value types: options builder, encode parameters, ConvertedImage,
   ImageError *)

\* arguments of quality(f32), in hundredths, and of compression_level(u8)
QualityArgs ==
    {NaN, -50, 0, 30, 80, 100, 150}

LevelArgs ==
    {0, 6, 9, 10, 255}

\* ConversionOptions as deserialization can produce them
AnyOptions ==
    [tag : {"Some"}, quality : QualityArgs, compression_level : LevelArgs]

OriginalSizes ==
    {0, 8, 100}

Buffer1x1 ==
    ImageBuffer(<<0>>, 1, 1, "Rgba8")

InitTypes ==
    /\ ConverterIdle
    /\ DetectIdle
    /\ BufferIdle
    /\ WasmIdle
    /\ builder = ConversionOptions_default
    /\ ret = NoCall

\* ConversionOptionsBuilder::new()
BuilderNew ==
    /\ builder' = ConversionOptions_default
    /\ ret' = [op |-> "builder_new"]
    /\ UNCHANGED outside_types

\* builder.quality(q)
SetQuality(q) ==
    /\ builder' = Builder_quality(builder, q)
    /\ ret' = [op |-> "quality", arg |-> q, pre |-> builder]
    /\ UNCHANGED outside_types

\* builder.compression_level(level)
SetCompressionLevel(level) ==
    /\ builder' = Builder_compression_level(builder, level)
    /\ ret' = [op |-> "compression_level", arg |-> level, pre |-> builder]
    /\ UNCHANGED outside_types

\* builder.clone().build()
Build ==
    /\ ret' = [op |-> "build", options |-> builder]
    /\ UNCHANGED <<builder, outside_types>>

\* codec_engine.encode(&buffer, format, &options)
Encode(format, options) ==
    /\ LET t == CodecEngine_encode_traced(Buffer1x1, format, options) IN
       ret' = [op |-> "encode", format |-> format, options |-> options,
               result |-> t.result, codec_calls |-> t.codec_calls]
    /\ UNCHANGED <<builder, outside_types>>

\* ConvertedImage::new(data, dimensions, format, time, original_size)
NewConvertedImage(data, format, original_size) ==
    /\ ret' = [op |-> "converted_image",
               image |-> ConvertedImage_new(data, [width |-> 1, height |-> 1],
                                            format, original_size)]
    /\ UNCHANGED <<builder, outside_types>>

\* error.category() and error.is_retryable() of an error of the given variant
Classify(kind) ==
    /\ ret' = [op |-> "classify", kind |-> kind,
               category |-> ImageError_category(kind),
               retryable |-> ImageError_is_retryable(kind)]
    /\ UNCHANGED <<builder, outside_types>>

NextTypes ==
    \/ BuilderNew
    \/ \E q \in QualityArgs : SetQuality(q)
    \/ \E level \in LevelArgs : SetCompressionLevel(level)
    \/ Build
    \/ \E format \in ImageFormat, options \in AnyOptions \cup {builder} :
          Encode(format, options)
    \/ \E data \in SampleImages, format \in {"Jpeg", "Png"}, size \in OriginalSizes :
          NewConvertedImage(data, format, size)
    \/ \E kind \in ImageErrorKinds : Classify(kind)

SpecTypes ==
    InitTypes /\ [][NextTypes]_vars

-----------------------------------------------------------------------------
(* The converter's statistics under update_conversion_stats, with the
   outcomes a conversion has once a codec succeeds, and their read-out *)

ElapsedTimes ==
    {1, 3}

\* what execute_conversion can hand to update_conversion_stats for an input
ConversionOutcomes(context) ==
    {[result |-> Err("InvalidFormat", "Data does not match format",
                     context.from_format),
      elapsed_ms |-> 0]}
    \cup {[result |-> ConversionResult(context,
                         ImageBuffer(<<0, 0, 0, 0>>, 2, 2, "Rgba8"), JpegHeader),
           elapsed_ms |-> e] : e \in ElapsedTimes}

InitStatistics ==
    /\ config \in Configs
    /\ workload = [a |-> "Png", b |-> "Jpeg"]
    /\ conversion_stats = FormatConverter_new(config).stats
    /\ perf = FormatConverter_new(config).perf
    /\ pc = "idle"
    /\ batch = NoBatch
    /\ last = NoCall
    /\ budget = MaxConversions
    /\ DetectIdle
    /\ BufferIdle
    /\ TypesIdle
    /\ WasmIdle

\* the tail of convert_format: update_conversion_stats(&context, &result)
UpdateConversionStats(data, task, outcome) ==
    /\ budget >= 1
    /\ LET context == [ConversionContext(config, data, task.from_format,
                           task.to_format, task.options)
                         EXCEPT !.elapsed_ms = outcome.elapsed_ms]
       IN conversion_stats' = FormatConverter_update_conversion_stats(
                                  conversion_stats, context, outcome.result)
    /\ budget' = budget - 1
    /\ ret' = [op |-> "update_conversion_stats", result |-> outcome.result]
    /\ UNCHANGED <<config, workload, perf, pc, batch, last, builder,
                   det_vars, buf_vars, wasm_vars>>

\* converter.get_conversion_statistics()
GetConversionStatistics ==
    /\ \E most_used \in FormatConverter_get_most_used_conversion(conversion_stats) :
          ret' = [op |-> "get_conversion_statistics",
                  statistics |-> FormatConverter_get_conversion_statistics(
                      conversion_stats,
                      PerformanceMonitor_get_current_metrics(
                          perf, config.enable_performance_monitoring),
                      most_used)]
    /\ UNCHANGED <<conv_vars, builder, det_vars, buf_vars, wasm_vars>>

NextStatistics ==
    \/ \E data \in SampleImages \ {<<>>}, task \in Tasks :
          \E outcome \in ConversionOutcomes(
                            ConversionContext(config, data, task.from_format,
                                              task.to_format, task.options)) :
             UpdateConversionStats(data, task, outcome)
    \/ GetConversionStatistics

SpecStatistics ==
    InitStatistics /\ [][NextStatistics]_vars

-----------------------------------------------------------------------------
(* One PerformanceMonitor used on its own, by callers that survive a panic of
   one of their threads.  The monitor's config.enabled is the variable
   config's enable_performance_monitoring, the value the converter
   constructs its monitor with. *)

MaxRecordings == 3

Durations ==
    {1, 2}

BatchCounts ==
    0..2

InitMonitor ==
    /\ config \in {c \in Configs : c.enable_parallel}
    /\ workload = [a |-> "Png", b |-> "Jpeg"]
    /\ conversion_stats = ConversionStats_default
    /\ perf = PerformanceCollector_new
    /\ pc = "idle"
    /\ batch = NoBatch
    /\ last = NoCall
    /\ budget = MaxRecordings
    /\ DetectIdle
    /\ overflow_checks \in BOOLEAN
    /\ buf = NoBuffer
    /\ buf_ret = NoBufferCall
    /\ TypesIdle
    /\ WasmIdle

MonitorFrame ==
    UNCHANGED <<conversion_stats, pc, batch, last, workload, builder, det_vars,
                buf, buf_ret, overflow_checks, wasm_vars>>

StartConversion(from, to) ==
    /\ budget >= 1
    /\ perf' = PerformanceMonitor_start_conversion(
                   perf, config.enable_performance_monitoring, from, to)
    /\ budget' = budget - 1
    /\ ret' = [op |-> "start_conversion", result |-> Ok(<<>>)]
    /\ UNCHANGED config
    /\ MonitorFrame

EndConversion(duration_ms, success) ==
    /\ budget >= 1
    /\ perf' = PerformanceMonitor_end_conversion(
                   perf, config.enable_performance_monitoring, duration_ms, success)
    /\ budget' = budget - 1
    /\ ret' = [op |-> "end_conversion", result |-> Ok(<<>>)]
    /\ UNCHANGED config
    /\ MonitorFrame

StartBatchConversion(batch_size) ==
    /\ budget >= 1
    /\ perf' = PerformanceMonitor_start_batch_conversion(
                   perf, config.enable_performance_monitoring, batch_size)
    /\ budget' = budget - 1
    /\ ret' = [op |-> "start_batch_conversion", result |-> Ok(<<>>)]
    /\ UNCHANGED config
    /\ MonitorFrame

EndBatchConversion(duration_ms, success_count, total_count) ==
    /\ budget >= 1
    /\ LET r == PerformanceMonitor_end_batch_conversion(
                    perf, config.enable_performance_monitoring, duration_ms,
                    success_count, total_count)
       IN /\ perf' = r.collector
          /\ ret' = [op |-> "end_batch_conversion",
                     result |-> IF r.panic THEN Panic ELSE Ok(<<>>)]
    /\ budget' = budget - 1
    /\ UNCHANGED config
    /\ MonitorFrame

GetCurrentMetrics ==
    /\ ret' = [op |-> "get_current_metrics",
               result |-> Ok(PerformanceMonitor_get_current_metrics(
                                 perf, config.enable_performance_monitoring))]
    /\ UNCHANGED <<config, perf, budget>>
    /\ MonitorFrame

UpdateConfig(enabled) ==
    /\ config' = [config EXCEPT !.enable_performance_monitoring = enabled]
    /\ ret' = [op |-> "update_config", result |-> Ok(<<>>)]
    /\ UNCHANGED <<perf, budget>>
    /\ MonitorFrame

GenerateReport ==
    /\ ret' = [op |-> "generate_report",
               result |-> PerformanceMonitor_generate_report(
                              perf, config.enable_performance_monitoring)]
    /\ UNCHANGED <<config, perf, budget>>
    /\ MonitorFrame

Reset ==
    /\ perf' = PerformanceMonitor_reset(perf)
    /\ ret' = [op |-> "reset", result |-> Ok(<<>>)]
    /\ UNCHANGED <<config, budget>>
    /\ MonitorFrame

NextMonitor ==
    \/ StartConversion(workload.a, workload.b)
    \/ \E duration_ms \in Durations, success \in BOOLEAN :
          EndConversion(duration_ms, success)
    \/ \E batch_size \in BatchCounts : StartBatchConversion(batch_size)
    \/ \E duration_ms \in Durations, success_count \in BatchCounts,
          total_count \in BatchCounts :
          EndBatchConversion(duration_ms, success_count, total_count)
    \/ GetCurrentMetrics
    \/ \E enabled \in BOOLEAN : UpdateConfig(enabled)
    \/ GenerateReport
    \/ Reset

SpecMonitor ==
    InitMonitor /\ [][NextMonitor]_vars

-----------------------------------------------------------------------------
(* A PerformanceMonitor whose history is about to fill up: an enabled
   monitor after start_batch_conversion(1), ..., start_batch_conversion(n),
   n two short of the history's capacity *)

HistoryBacklog ==
    MaxHistoryEntries - 2

\* the collector p after start_batch_conversion(lo), ..., start_batch_conversion(hi)
\* on an enabled monitor; the calls are split in two halves, the collector
\* left by the first half (q) being handed to the second
RECURSIVE MonitorAfterBatchStarts(_, _, _)
MonitorAfterBatchStarts(p, lo, hi) ==
    IF lo > hi THEN p
    ELSE IF lo = hi THEN PerformanceMonitor_start_batch_conversion(p, TRUE, lo)
    ELSE LET mid == (lo + hi) \div 2
         IN CHOOSE out \in { MonitorAfterBatchStarts(q, mid + 1, hi) :
                                q \in {MonitorAfterBatchStarts(p, lo, mid)} } : TRUE

InitHistory ==
    /\ config \in {c \in Configs : c.enable_parallel /\ c.enable_performance_monitoring}
    /\ workload = [a |-> "Png", b |-> "Jpeg"]
    /\ conversion_stats = ConversionStats_default
    /\ \E fresh \in {PerformanceCollector_new} :
          perf = MonitorAfterBatchStarts(fresh, 1, HistoryBacklog)
    /\ pc = "idle"
    /\ batch = NoBatch
    /\ last = NoCall
    /\ budget = MaxRecordings
    /\ DetectIdle
    /\ overflow_checks \in BOOLEAN
    /\ buf = NoBuffer
    /\ buf_ret = NoBufferCall
    /\ TypesIdle
    /\ WasmIdle

NextHistory ==
    \/ StartConversion(workload.a, workload.b)
    \/ \E batch_size \in BatchCounts : StartBatchConversion(batch_size)
    \/ \E duration_ms \in Durations, success \in BOOLEAN :
          EndConversion(duration_ms, success)
    \/ GetCurrentMetrics

SpecHistory ==
    InitHistory /\ [][NextHistory]_vars

-----------------------------------------------------------------------------
(* rustimage-wasm: ImageConverter::batch_convert and BatchConversionResult
   (conversion.rs, types.rs of the wasm crate) *)

from_js_image_format(format) ==
    CASE format = "Jpeg" -> "Jpeg"
      [] format = "Png" -> "Png"
      [] format = "WebP" -> "WebP"
      [] format = "Avif" -> "Avif"
      [] format = "Bmp" -> "Bmp"
      [] format = "Tiff" -> "Tiff"
      [] format = "Gif" -> "Gif"
      [] format = "Ico" -> "Ico"

to_js_image_format(format) ==
    CASE format = "Jpeg" -> "Jpeg"
      [] format = "Png" -> "Png"
      [] format = "WebP" -> "WebP"
      [] format = "Avif" -> "Avif"
      [] format = "Bmp" -> "Bmp"
      [] format = "Tiff" -> "Tiff"
      [] format = "Gif" -> "Gif"
      [] format = "Ico" -> "Ico"

\* the builder calls of from_js_conversion_options on the fields modelled
from_js_conversion_options(js_options) ==
    LET b1 == IF js_options.quality = NoResult THEN ConversionOptions_default
              ELSE Builder_quality(ConversionOptions_default,
                                   js_options.quality.value)
    IN IF js_options.compression_level = NoResult THEN b1
       ELSE Builder_compression_level(b1, js_options.compression_level.value)

to_js_converted_image(rust_image) ==
    [data |-> rust_image.data,
     width |-> rust_image.dimensions.width,
     height |-> rust_image.dimensions.height,
     format |-> to_js_image_format(rust_image.format),
     original_size |-> rust_image.original_size,
     compression_ratio |-> rust_image.compression_ratio]

\* e.to_string(): the Display text of the variant with its fields filled in
ImageError_to_string(error) ==
    <<"Display", error.kind>> \o error.details

\* converter.convert_format as the wrapper calls it.  With codec_ok the
\* codec engine decodes and encodes the input (a 2x2 buffer, 8 output
\* bytes) instead of answering as the stub codecs do.
ImageConverter_call_convert_format(conv, cfg, task, codec_ok) ==
    LET from == from_js_image_format(task.from_format)
        to == from_js_image_format(task.to_format)
        options == IF task.options = NoResult THEN NoOptions
                   ELSE from_js_conversion_options(task.options.value)
        r == FormatConverter_convert_format(conv, cfg, task.image_data,
                                            from, to, options)
        context == ConversionContext(cfg, task.image_data, from, to, options)
        ok == ConversionResult(context, ImageBuffer(<<0, 0, 0, 0>>, 2, 2, "Rgba8"),
                               JpegHeader)
    IN IF ~codec_ok \/ FormatConverter_validate_conversion_request(context).tag = "Err"
       THEN [conv |-> r.conv, result |-> r.result]
       ELSE [conv |->
                [stats |-> FormatConverter_update_conversion_stats(
                               conv.stats, context, ok),
                 perf |-> IF context.enable_monitoring
                          THEN PerformanceMonitor_end_conversion(
                                   PerformanceMonitor_start_conversion(conv.perf,
                                       cfg.enable_performance_monitoring, from, to),
                                   cfg.enable_performance_monitoring,
                                   context.elapsed_ms, TRUE)
                          ELSE conv.perf],
             result |-> ok]

ImageConverter_push_result_errors_last(results, r) ==
    IF IsOk(r) THEN <<Ok(to_js_converted_image(r.value))>> \o results
    ELSE Append(results, [tag |-> "Err", error |-> ImageError_to_string(r.error)])

\* results.push(Ok(to_js_converted_image(result))) / results.push(Err(e.to_string()))
ImageConverter_push_result(results, r) ==
    IF IsOk(r) THEN Append(results, Ok(to_js_converted_image(r.value)))
    ELSE Append(results, [tag |-> "Err", error |-> ImageError_to_string(r.error)])

\* the loop of batch_convert from task i on: acc holds the converter, the
\* results vector, the count of successes and what the core returned per
\* task so far.  Each iteration's call is bound as a value (c), and so is
\* the loop state it yields (next).
RECURSIVE ImageConverter_batch_loop(_, _, _, _, _)
ImageConverter_batch_loop(cfg, tasks, codec_ok, i, acc) ==
    IF i > Len(tasks) THEN acc
    ELSE LET iteration ==
                 { [conv |-> c.conv,
                    results |-> ImageConverter_push_result(acc.results, c.result),
                    successful_count |-> IF IsOk(c.result)
                                         THEN acc.successful_count + 1
                                         ELSE acc.successful_count,
                    outcomes |-> Append(acc.outcomes, c.result)] :
                   c \in {ImageConverter_call_convert_format(
                              acc.conv, cfg, tasks[i], codec_ok[i])} }
         IN CHOOSE out \in { ImageConverter_batch_loop(cfg, tasks, codec_ok,
                                                       i + 1, next) :
                             next \in iteration } : TRUE

\* ImageConverter::batch_convert on a wrapper whose inner is alive or not
ImageConverter_batch_convert(conv, cfg, alive, tasks, codec_ok) ==
    IF ~alive
    THEN [conv |-> conv, outcomes |-> <<>>,
          result |-> [tag |-> "Err", error |-> "Converter has been destroyed"]]
    ELSE CHOOSE out \in
             { [conv |-> l.conv, outcomes |-> l.outcomes,
                result |-> Ok([results |-> l.results,
                               successful_count |-> l.successful_count,
                               total_count |-> Len(l.results)])] :
               l \in {ImageConverter_batch_loop(cfg, tasks, codec_ok, 1,
                          [conv |-> conv, results |-> <<>>,
                           successful_count |-> 0, outcomes |-> <<>>])} } : TRUE

\* self.results.get(index).and_then(|r| r.as_ref().ok().cloned()); index from 0
BatchConversionResult_get_result(b, index) ==
    IF index >= Len(b.results) THEN NoResult
    ELSE IF IsOk(b.results[index + 1]) THEN Some(b.results[index + 1].value)
    ELSE NoResult

\* self.results.get(index).and_then(|r| r.as_ref().err().cloned())
BatchConversionResult_get_error(b, index) ==
    IF index >= Len(b.results) THEN NoResult
    ELSE IF IsErr(b.results[index + 1]) THEN Some(b.results[index + 1].error)
    ELSE NoResult

\* ConverterConfig of ImageConverter::new, createHighPerformance and
\* createHighQuality
ImageConverterConfigs ==
    { [enable_parallel |-> TRUE, enable_performance_monitoring |-> FALSE,
       enable_quality_assessment |-> FALSE, default_quality_strategy |-> "Balanced"],
      [enable_parallel |-> TRUE, enable_performance_monitoring |-> TRUE,
       enable_quality_assessment |-> FALSE, default_quality_strategy |-> "Balanced"],
      [enable_parallel |-> FALSE, enable_performance_monitoring |-> FALSE,
       enable_quality_assessment |-> TRUE, default_quality_strategy |-> "MaxQuality"] }

\* BatchConversionTask values: an empty and a non-empty input, with and
\* without options
BatchConversionTasks ==
    { [image_data |-> <<>>, from_format |-> "Jpeg", to_format |-> "Png",
       options |-> NoResult],
      [image_data |-> JpegHeader, from_format |-> "Jpeg", to_format |-> "Png",
       options |-> NoResult],
      [image_data |-> JpegHeader, from_format |-> "Png", to_format |-> "Jpeg",
       options |-> Some([quality |-> Some(150), compression_level |-> NoResult])] }

NoWasmBatch ==
    [op |-> "none"]

InitWasm ==
    /\ config \in ImageConverterConfigs
    /\ workload = [a |-> "Jpeg", b |-> "Png"]
    /\ conversion_stats = FormatConverter_new(config).stats
    /\ perf = FormatConverter_new(config).perf
    /\ pc = "idle"
    /\ batch = NoBatch
    /\ last = NoWasmBatch
    /\ budget = MaxConversions
    /\ DetectIdle
    /\ BufferIdle
    /\ TypesIdle
    /\ inner = "Some"

\* converter.batchConvert(tasks); the observation is kept in last, and no
\* accessor has been called yet on the result it returns
WasmBatchConvert(tasks, codec_ok) ==
    /\ Len(tasks) <= budget
    /\ \E r \in {ImageConverter_batch_convert(self_converter, config,
                    inner = "Some", tasks, codec_ok)} :
          /\ conversion_stats' = r.conv.stats
          /\ perf' = r.conv.perf
          /\ last' = [op |-> "ImageConverter::batch_convert", tasks |-> tasks,
                      outcomes |-> r.outcomes, result |-> r.result]
    /\ budget' = budget - Len(tasks)
    /\ ret' = NoCall
    /\ UNCHANGED <<config, workload, pc, batch, det_vars, buf_vars, builder,
                   inner>>

WasmBatchReturned ==
    /\ last.op = "ImageConverter::batch_convert"
    /\ IsOk(last.result)

\* result.getResult(index) on the BatchConversionResult last returned
WasmGetResult(index) ==
    /\ WasmBatchReturned
    /\ ret' = [op |-> "get_result", index |-> index,
               result |-> BatchConversionResult_get_result(last.result.value, index)]
    /\ UNCHANGED <<conv_vars, det_vars, buf_vars, builder, inner>>

\* result.getError(index) on the BatchConversionResult last returned
WasmGetError(index) ==
    /\ WasmBatchReturned
    /\ ret' = [op |-> "get_error", index |-> index,
               result |-> BatchConversionResult_get_error(last.result.value, index)]
    /\ UNCHANGED <<conv_vars, det_vars, buf_vars, builder, inner>>

\* converter.destroy()
WasmDestroy ==
    /\ inner' = "None"
    /\ UNCHANGED <<conv_vars, det_vars, buf_vars, types_vars>>

NextWasm ==
    \/ \E tasks \in SeqsUpTo(BatchConversionTasks, Min(MaxBatch, budget)) :
          \E codec_ok \in [1..Len(tasks) -> BOOLEAN] :
             WasmBatchConvert(tasks, codec_ok)
    \/ \E index \in 0..MaxBatch : WasmGetResult(index)
    \/ \E index \in 0..MaxBatch : WasmGetError(index)
    \/ WasmDestroy

SpecWasm ==
    InitWasm /\ [][NextWasm]_vars

-----------------------------------------------------------------------------
(* Properties of convert_format and batch_convert, checked under Spec *)

Usage(stats, pair) ==
    IF pair \in DOMAIN stats.format_usage THEN stats.format_usage[pair] ELSE 0

TaskPair(task) ==
    <<task.from_format, task.to_format>>

ConvertReturned ==
    last.op = "convert_format"

BatchReturned ==
    last.op = "batch_convert"

\* the outcome of converting one image under one task on a converter of its own
ItemOutcome(image, task) ==
    FormatConverter_convert_format(FormatConverter_new(config), config, image,
        task.from_format, task.to_format, task.options).result

\* C1: every call to convert_format, successful or failed (also one rejected
\* by request validation), increases total_conversions by exactly 1 and the
\* usage counter of its (from_format, to_format) pair by exactly 1.
C1_EveryCallCountedOnce ==
    ConvertReturned =>
        /\ conversion_stats.total_conversions = last.pre_stats.total_conversions + 1
        /\ Usage(conversion_stats, TaskPair(last.task))
               = Usage(last.pre_stats, TaskPair(last.task)) + 1

\* C2: batch_convert with images.len() # conversion_tasks.len() returns
\* InvalidParameters, no item is decoded or encoded, and the statistics and
\* the performance monitor are as they were before the call.
C2_MismatchedBatchRejected ==
    (BatchReturned /\ Len(last.images) # Len(last.tasks)) =>
        /\ IsErr(last.result)
        /\ last.result.error.kind = "InvalidParameters"
        /\ last.order = <<>>
        /\ last.decode_calls = 0
        /\ conversion_stats = last.pre_stats
        /\ perf = last.pre_perf

\* C2 witness: a mismatched batch with a non-empty image, called on a
\* converter that has already counted a conversion
C2_Witness ==
    /\ BatchReturned
    /\ Len(last.images) # Len(last.tasks)
    /\ \E i \in 1..Len(last.images) : last.images[i] # <<>>
    /\ last.pre_stats.total_conversions > 0

LowestIndex(S) ==
    CHOOSE i \in S : \A j \in S : i <= j

\* C3: when at least one item of a batch fails, batch_convert returns
\* BatchProcessingFailed with successful_count and failed_count the numbers of
\* succeeded and failed items (summing to the batch size) and first_error the
\* error of the lowest-index failing item; when no item fails it returns one
\* ConvertedImage per input.
C3_BatchAggregation ==
    (BatchReturned /\ Len(last.images) = Len(last.tasks)) =>
        LET n == Len(last.images)
            failed == {i \in 1..n : IsErr(ItemOutcome(last.images[i], last.tasks[i]))}
        IN IF failed # {}
           THEN /\ IsErr(last.result)
                /\ last.result.error.kind = "BatchProcessingFailed"
                /\ last.result.error.failed_count = Cardinality(failed)
                /\ last.result.error.successful_count = n - Cardinality(failed)
                /\ last.result.error.first_error
                       = ItemOutcome(last.images[LowestIndex(failed)],
                                     last.tasks[LowestIndex(failed)]).error
           ELSE /\ IsOk(last.result)
                /\ Len(last.result.value) = n

\* C3 witness: a failed batch of at least two items whose first two items
\* failed with different errors
C3_Witness ==
    /\ BatchReturned
    /\ Len(last.images) = Len(last.tasks)
    /\ Len(last.images) >= 2
    /\ IsErr(last.result)
    /\ IsErr(last.results[1]) /\ IsErr(last.results[2])
    /\ last.results[1].error # last.results[2].error
    /\ last.result.error.first_error = last.results[1].error

C24_SequentialParallelAgree ==
    BatchReturned =>
        \A parallel \in BOOLEAN :
            last.result = FormatConverter_batch_convert(
                              [stats |-> last.pre_stats, perf |-> last.pre_perf],
                              [config EXCEPT !.enable_parallel = parallel],
                              last.images, last.tasks)

\* C24 witness: a failed parallel batch whose second item completed first and
\* whose two items failed with different errors
C24_Witness ==
    /\ BatchReturned
    /\ last.parallel
    /\ Len(last.images) = 2 /\ Len(last.tasks) = 2
    /\ last.order = <<2, 1>>
    /\ IsErr(last.results[1]) /\ IsErr(last.results[2])
    /\ last.results[1].error # last.results[2].error
    /\ IsErr(last.result)
    /\ last.result.error.failed_count = 2

\* C5: a parallel batch of n items loses no telemetry update: afterwards
\* total_conversions of the converter batch_convert was called on has grown
\* by n.  (Stated for batches of non-empty images, which pass request
\* validation.)
C5_ParallelBatchCounted ==
    (/\ BatchReturned
     /\ last.parallel
     /\ Len(last.images) = Len(last.tasks)
     /\ \A i \in 1..Len(last.images) : last.images[i] # <<>>) =>
        conversion_stats.total_conversions
            = last.pre_stats.total_conversions + Len(last.images)

\* C6: in sequential execution a failing item does not abort the remaining
\* items: convert_format is called on every one of the n items, in input
\* order, also after an earlier item failed.
C6_SequentialNoFailFast ==
    /\ (BatchReturned /\ ~last.parallel /\ Len(last.images) = Len(last.tasks)) =>
           /\ last.order = [i \in 1..Len(last.images) |-> i]
           /\ \A i \in 1..Len(last.images) : last.results[i] # NoResult
    /\ (pc = "seq" /\ Len(batch.order) < Len(batch.images)) => ENABLED SequentialStep

\* C6 witness: a sequential batch of at least two items whose first item
\* failed and whose last item was still converted
C6_Witness ==
    /\ BatchReturned
    /\ ~last.parallel
    /\ Len(last.images) = Len(last.tasks)
    /\ Len(last.images) >= 2
    /\ IsErr(last.results[1])
    /\ last.order[Len(last.order)] = Len(last.images)
    /\ last.results[Len(last.images)] # NoResult

\* C7: converting a well-formed image whose signature matches from_format
\* (the 2x2 RGBA PNG) succeeds with format = to_format, the source's
\* dimensions, converted_size > 0 and bytes that detect as to_format.
C7_WellFormedConversionSucceeds ==
    (/\ ConvertReturned
     /\ last.data = Png2x2
     /\ last.task.from_format = "Png"
     /\ FormatDetector_detect(last.data) = Ok("Png")) =>
        /\ IsOk(last.result)
        /\ last.result.value.format = last.task.to_format
        /\ last.result.value.dimensions = [width |-> 2, height |-> 2]
        /\ last.result.value.converted_size > 0
        /\ FormatDetector_detect(last.result.value.data) = Ok(last.task.to_format)

\* C8: convert_format on empty input fails, for every format pair, with
\* InvalidParameters raised by request validation, before decode or encode.
C8_EmptyInputRejected ==
    (ConvertReturned /\ last.data = <<>>) =>
        /\ IsErr(last.result)
        /\ last.result.error.kind = "InvalidParameters"
        /\ last.decode_calls = 0
        /\ last.encode_calls = 0

\* C8 witness: a call with empty input between two different formats
C8_Witness ==
    /\ ConvertReturned
    /\ last.data = <<>>
    /\ last.task.from_format # last.task.to_format
    /\ IsErr(last.result)

\* C9: a non-empty input whose signature does not match from_format fails
\* with an error of another kind than the error of an input that carries
\* from_format's signature and fails to decode.
C9_MismatchDistinctFromDecodeFailure ==
    (/\ ConvertReturned
     /\ last.data # <<>>
     /\ FormatDetector_detect(last.data) = Ok(last.task.from_format)
     /\ IsErr(last.result)) =>
        \A other \in SampleImages :
            (other # <<>> /\ FormatDetector_detect(other) # Ok(last.task.from_format)) =>
                LET r == ItemOutcome(other, last.task) IN
                /\ IsErr(r)
                /\ r.error.kind # last.result.error.kind

\* the options the claim gives for each quality strategy
StrategyOptions(strategy) ==
    CASE strategy = "PreserveOriginal" -> [quality |-> 95, compression_level |-> 6]
      [] strategy = "OptimizeSize"     -> [quality |-> 75, compression_level |-> 9]
      [] strategy = "Balanced"         -> [quality |-> 85, compression_level |-> 6]
      [] strategy = "MaxQuality"       -> [quality |-> 100, compression_level |-> 0]

\* C16: convert_format called without options uses the options of the
\* configured quality strategy (PreserveOriginal 0.95; OptimizeSize 0.75 and
\* level 9; Balanced 0.85 and level 6; MaxQuality 1.0 and level 0); supplied
\* options are used unchanged.
C16_DefaultOptionsByStrategy ==
    ConvertReturned =>
        IF last.task.options = NoOptions
        THEN LET expected == StrategyOptions(config.default_quality_strategy) IN
             /\ last.options_used.quality = expected.quality
             /\ config.default_quality_strategy # "PreserveOriginal" =>
                    last.options_used.compression_level = expected.compression_level
        ELSE last.options_used = last.task.options

\* C16 witness: a call without options on a converter configured with
\* PreserveOriginal ran with quality 0.95
C16_Witness ==
    /\ ConvertReturned
    /\ last.task.options = NoOptions
    /\ config.default_quality_strategy = "PreserveOriginal"
    /\ last.options_used.quality = 95

-----------------------------------------------------------------------------
(* Properties of FormatDetector::detect, checked under SpecDetect *)

\* the canonical signatures, -1 standing for a byte the signature leaves open
CanonicalSignatures(format) ==
    CASE format = "Jpeg" -> { <<255, 216, 255>> }
      [] format = "Png"  -> { <<137, 80, 78, 71, 13, 10, 26, 10>> }
      [] format = "WebP" -> { <<82, 73, 70, 70, -1, -1, -1, -1, 87, 69, 66, 80>> }
      [] format = "Avif" -> { <<-1, -1, -1, -1, 102, 116, 121, 112, 97, 118, 105, 102>> }
      [] format = "Bmp"  -> { <<66, 77>> }
      [] format = "Tiff" -> { <<73, 73, 42, 0>>, <<77, 77, 0, 42>> }
      [] format = "Gif"  -> { <<71, 73, 70, 56, 55, 97>>, <<71, 73, 70, 56, 57, 97>> }
      [] format = "Ico"  -> { <<0, 0, 1, 0>> }

BeginsWith(data, pattern) ==
    /\ Len(data) >= Len(pattern)
    /\ \A i \in 1..Len(pattern) : pattern[i] = -1 \/ data[i] = pattern[i]

CarriesSignature(format, data) ==
    \E pattern \in CanonicalSignatures(format) : BeginsWith(data, pattern)

DetectReturned ==
    det_result # NoResult

PassingTests(data) ==
    {format \in ImageFormat : SignatureTest(format, data) = "yes"}

\* C11: the signature tests of detect are mutually exclusive: no byte
\* sequence of length >= 8 satisfies the tests of two different formats.
C11_TestsMutuallyExclusive ==
    (DetectReturned /\ Len(det_data) >= 8) =>
        Cardinality(PassingTests(det_data)) <= 1

-----------------------------------------------------------------------------
(* Properties of ImageBuffer, checked under SpecBuffer *)

BufferCallReturned(op) ==
    buf_ret.op = op

\* n = a * b over the naturals, decided by division
IsProduct(n, a, b) ==
    IF a = 0 \/ b = 0 THEN n = 0
    ELSE n % a = 0 /\ n \div a = b

\* C12: every ImageBuffer obtained from a constructor, and after any
\* sequence of operations, has pixels.len() == width * height; a construction
\* that would violate this returns an error instead of a buffer.
C12_LengthMatchesDimensions ==
    /\ buf # NoBuffer =>
           IsProduct(Len(buf.pixels), buf.dimensions.width, buf.dimensions.height)
    /\ (BufferCallReturned("new") \/ BufferCallReturned("from_raw")) =>
           (~IsProduct(Len(buf_ret.data), buf_ret.width, buf_ret.height)
                => ~IsOk(buf_ret.result))

\* C13: get_pixel returns None whenever x >= width or y >= height and
\* otherwise the pixel stored at row-major index y * width + x; put_pixel
\* with x >= width or y >= height returns an InvalidParameters error.
C13_BoundsCheckedAccess ==
    LET b == buf_ret.pre
        outside == buf_ret.x >= b.dimensions.width \/ buf_ret.y >= b.dimensions.height
        index == buf_ret.y * b.dimensions.width + buf_ret.x
    IN /\ BufferCallReturned("get_pixel") =>
              IF outside THEN buf_ret.result = NoResult
              ELSE /\ index < Len(b.pixels)
                   /\ buf_ret.result = Some(b.pixels[index + 1])
       /\ (BufferCallReturned("put_pixel") /\ outside) =>
              /\ IsErr(buf_ret.result)
              /\ buf_ret.result.error.kind = "InvalidParameters"

\* the coordinates at which a buffer is compared before and after a call
SampleCoordinates ==
    Dims \X (Dims \cup {WrapRow})

\* C26: a successful put_pixel(x, y, p) makes get_pixel(x, y) return p and
\* leaves every other pixel, the dimensions and the pixel format unchanged;
\* a failing put_pixel leaves the buffer entirely unchanged.
C26_PutPixelFrame ==
    BufferCallReturned("put_pixel") =>
        LET pre == buf_ret.pre IN
        IF IsOk(buf_ret.result)
        THEN /\ ImageBuffer_get_pixel(buf, buf_ret.x, buf_ret.y) = Some(buf_ret.pixel)
             /\ buf.dimensions = pre.dimensions
             /\ buf.pixel_format = pre.pixel_format
             /\ Len(buf.pixels) = Len(pre.pixels)
             /\ \A c \in SampleCoordinates :
                    c # <<buf_ret.x, buf_ret.y>> =>
                        ImageBuffer_get_pixel(buf, c[1], c[2])
                            = ImageBuffer_get_pixel(pre, c[1], c[2])
        ELSE buf = pre

\* C26 restricted to buffers whose pixel count is the product of their
\* dimensions
C26_PutPixelFrameWithoutWrap ==
    (BufferCallReturned("put_pixel")
        /\ IsProduct(Len(buf_ret.pre.pixels), buf_ret.pre.dimensions.width,
                     buf_ret.pre.dimensions.height)) =>
        LET pre == buf_ret.pre IN
        IF IsOk(buf_ret.result)
        THEN /\ ImageBuffer_get_pixel(buf, buf_ret.x, buf_ret.y) = Some(buf_ret.pixel)
             /\ buf.dimensions = pre.dimensions
             /\ buf.pixel_format = pre.pixel_format
             /\ Len(buf.pixels) = Len(pre.pixels)
             /\ \A c \in SampleCoordinates :
                    c # <<buf_ret.x, buf_ret.y>> =>
                        ImageBuffer_get_pixel(buf, c[1], c[2])
                            = ImageBuffer_get_pixel(pre, c[1], c[2])
        ELSE buf = pre

\* C27: from_raw accepts data only when data.len() equals the mathematical
\* product width * height; the 32-bit multiplication never wraps in a way
\* that lets a buffer with a mismatching pixel count be accepted.
C27_FromRawExactProduct ==
    (BufferCallReturned("from_raw") /\ IsOk(buf_ret.result)) =>
        IsProduct(Len(buf_ret.data), buf_ret.width, buf_ret.height)

-----------------------------------------------------------------------------
(* Properties of the value types, checked under SpecTypes *)

Returned(op) ==
    ret.op = op

QualityOutOfRange(options) ==
    ~(options.quality \in 0..100)

LevelOutOfRange(options) ==
    ~(options.compression_level \in 0..9)

RejectedBeforeCodec ==
    /\ IsErr(ret.result)
    /\ ret.result.error.kind = "InvalidParameters"
    /\ ret.codec_calls = <<>>

\* C14: CodecEngine::encode validates the options against the target format
\* before invoking the codec: a quality outside [0,1] for a lossy target, and
\* a compression level outside [0,9] for a lossless target, yields
\* InvalidParameters without a call of the codec's encode; the codec never sees
\* a clamped value.
C14_EncodeValidatesBeforeCodec ==
    Returned("encode") =>
        /\ (ret.format \in LossyFormats /\ QualityOutOfRange(ret.options))
               => RejectedBeforeCodec
        /\ (ret.format \notin LossyFormats /\ LevelOutOfRange(ret.options))
               => RejectedBeforeCodec
        /\ \A i \in 1..Len(ret.codec_calls) :
               ret.codec_calls[i].options = ret.options

\* C14 witness: quality 1.5 for a lossy target and level 10 for a lossless
\* target have each been rejected
C14_Witness ==
    /\ Returned("encode")
    /\ \/ ret.format = "Jpeg" /\ ret.options.quality = 150
       \/ ret.format = "Png" /\ ret.options.compression_level = 10
    /\ RejectedBeforeCodec

Nearest(x, min, max) ==
    IF x < min THEN min ELSE IF x > max THEN max ELSE x

\* C15: after any sequence of builder setter calls with arbitrary arguments
\* the options have quality within [0.0, 1.0] and compression level within
\* [0, 9]; an out-of-range argument is stored as the nearest bound and an
\* in-range argument unchanged.
C15_BuilderClamps ==
    /\ builder.quality \in 0..100
    /\ builder.compression_level \in 0..9
    /\ Returned("quality") => builder.quality = Nearest(ret.arg, 0, 100)
    /\ Returned("compression_level") =>
           builder.compression_level = Nearest(ret.arg, 0, 9)
    /\ Returned("build") => ret.options = builder

\* C17: every ConvertedImage has converted_size == data.len() and
\* compression_ratio == converted_size / original_size, and compression_ratio
\* 1.0 when original_size == 0.
C17_CompressionRatio ==
    Returned("converted_image") =>
        LET image == ret.image
            ratio == image.compression_ratio
        IN /\ image.converted_size = Len(image.data)
           /\ IF image.original_size = 0
              THEN ratio = Ratio(1, 1)
              ELSE /\ ratio.den # 0
                   /\ ratio.num * image.original_size = image.converted_size * ratio.den

\* C17 witness: an image built from non-empty data with original_size 0
C17_Witness ==
    /\ Returned("converted_image")
    /\ ret.image.original_size = 0
    /\ ret.image.converted_size > 0
    /\ ret.image.compression_ratio = Ratio(1, 1)

\* C20: every ImageError of category Codec or Resource is classified as
\* retryable by is_retryable().
C20_CodecAndResourceRetryable ==
    (Returned("classify") /\ ret.category \in {"Codec", "Resource"})
        => ret.retryable

C22_NoMetricsWhenDisabled ==
    (Returned("update_conversion_stats") /\ IsOk(ret.result)
        /\ ~config.enable_quality_assessment) =>
        ret.result.value.quality_metrics = NoResult

\* C21: every ImageError of category Format or Parameter is classified as
\* not retryable by is_retryable().
C21_FormatAndParameterNotRetryable ==
    (Returned("classify") /\ ret.category \in {"Format", "Parameter"})
        => ~ret.retryable

\* C21 witness: a Format error that is_retryable reaches only through its
\* wildcard arm has been classified
C21_Witness ==
    /\ Returned("classify")
    /\ ret.kind = "FormatDetectionFailed"
    /\ ret.category = "Format"
    /\ ~ret.retryable

-----------------------------------------------------------------------------
(* Properties of the statistics read-out, checked under SpecStatistics *)

\* the fraction r is the quotient n / d
IsQuotient(r, n, d) ==
    /\ r.den # 0
    /\ r.num * d = n * r.den

\* C19: the derived fields of get_conversion_statistics are computed at read
\* time from the raw counters: success_rate == successful_conversions /
\* total_conversions (0.0 when total_conversions == 0) and
\* average_processing_time_ms == total processing time /
\* successful_conversions (0.0 when there are none).
C19_DerivedStatistics ==
    Returned("get_conversion_statistics") =>
        LET st == ret.statistics
            raw == conversion_stats
        IN /\ st.total_conversions = raw.total_conversions
           /\ st.successful_conversions = raw.successful_conversions
           /\ IF raw.total_conversions = 0
              THEN st.success_rate = Ratio(0, 1)
              ELSE IsQuotient(st.success_rate, raw.successful_conversions,
                              raw.total_conversions)
           /\ IF raw.successful_conversions = 0
              THEN st.average_processing_time_ms = Ratio(0, 1)
              ELSE IsQuotient(st.average_processing_time_ms,
                              raw.total_processing_time_ms,
                              raw.successful_conversions)

\* C19 witness: statistics read after one successful and one failed conversion
C19_Witness ==
    /\ Returned("get_conversion_statistics")
    /\ conversion_stats.successful_conversions = 1
    /\ conversion_stats.failed_conversions = 1
    /\ conversion_stats.total_processing_time_ms > 0

-----------------------------------------------------------------------------
(* Properties of PerformanceMonitor, checked under SpecMonitor *)

\* C18: after PerformanceMonitor::reset(), following any sequence of
\* recording operations, the accumulated counters (total operations, total
\* processing time, error count, per-operation stats), the history and the
\* current metrics equal those of a freshly constructed monitor.
C18_ResetRestoresFreshState ==
    Returned("reset") =>
        /\ perf.accumulated_stats = PerformanceCollector_new.accumulated_stats
        /\ perf.history = PerformanceCollector_new.history
        /\ perf.current_metrics = PerformanceCollector_new.current_metrics

\* a <= b for u64 counters, a negative number n standing for 2^64 + n
U64LessEq(a, b) ==
    IF (a < 0) = (b < 0) THEN a <= b ELSE b < 0

\* C28: after any sequence of end_conversion and end_batch_conversion
\* recordings on an enabled monitor, with arbitrary arguments,
\* error_count <= total_operations holds and no unsigned underflow occurs,
\* also for end_batch_conversion calls whose success_count exceeds
\* total_count.
C28_ErrorCountBounded ==
    /\ U64LessEq(perf.accumulated_stats.error_count,
                 perf.accumulated_stats.total_operations)
    /\ perf.accumulated_stats.error_count >= 0
    /\ ~(Returned("end_batch_conversion") /\ ret.result = Panic)

\* error_count <= total_operations as long as no recording has panicked and
\* error_count does not hold a wrapped value
C28_BoundedWithSaneCounts ==
    (~perf.poisoned /\ perf.accumulated_stats.error_count >= 0) =>
        perf.accumulated_stats.error_count
            <= perf.accumulated_stats.total_operations

\* the operations of PerformanceMonitor that record into the collector
RecordingOperations ==
    {"start_conversion", "end_conversion", "start_batch_conversion",
     "end_batch_conversion"}

\* C30: on a PerformanceMonitor whose monitoring is disabled, start_conversion,
\* end_conversion, start_batch_conversion and end_batch_conversion leave the
\* collector state unchanged, get_current_metrics returns the default metrics,
\* and generate_report returns a PerformanceError.
C30_DisabledMonitorInert ==
    [][~config.enable_performance_monitoring =>
          /\ (ret'.op \in RecordingOperations) => (perf' = perf)
          /\ (ret'.op = "get_current_metrics") =>
                 (ret'.result = Ok(PerformanceMetrics_default))
          /\ (ret'.op = "generate_report") =>
                 /\ IsErr(ret'.result)
                 /\ ret'.result.error.kind = "PerformanceError"]_vars

\* a monitor that recorded conversions, was disabled, and was then handed one
\* more end_conversion
C30_Witness ==
    /\ ~config.enable_performance_monitoring
    /\ Returned("end_conversion")
    /\ perf.accumulated_stats.total_operations > 0
    /\ perf.current_metrics # PerformanceMetrics_default

C18_ResetWithoutPoison ==
    (Returned("reset") /\ ~perf.poisoned) =>
        /\ perf.accumulated_stats = PerformanceCollector_new.accumulated_stats
        /\ perf.history = PerformanceCollector_new.history
        /\ perf.current_metrics = PerformanceCollector_new.current_metrics

\* the sum of the counters of a format_usage map
RECURSIVE UsageSum(_)
UsageSum(fu) ==
    IF DOMAIN fu = {} THEN 0
    ELSE LET pair == CHOOSE q \in DOMAIN fu : TRUE
         IN fu[pair] + UsageSum([q \in DOMAIN fu \ {pair} |-> fu[q]])

\* C23: after any sequence of conversions the statistics satisfy
\* total_conversions == successful_conversions + failed_conversions, and
\* total_conversions equals the sum of the per-(from_format, to_format)
\* usage counters.
C23_StatisticsAddUp ==
    /\ conversion_stats.total_conversions
          = conversion_stats.successful_conversions
            + conversion_stats.failed_conversions
    /\ conversion_stats.total_conversions = UsageSum(conversion_stats.format_usage)

\* C23 witness: a success and a failure have been counted, on two format pairs
C23_Witness ==
    /\ conversion_stats.successful_conversions >= 1
    /\ conversion_stats.failed_conversions >= 1
    /\ Cardinality(DOMAIN conversion_stats.format_usage) = 2

-----------------------------------------------------------------------------
(* Properties of the wasm ImageConverter, checked under SpecWasm *)

\* C25: ImageConverter::batch_convert follows the collect policy: a failing
\* item never fails the whole batch, and the returned BatchConversionResult
\* has total_count equal to the number of tasks, successful_count equal to
\* the number of succeeded items, and for every index i < total_count
\* exactly one of get_result(i) and get_error(i) is present, holding the
\* outcome of task i.
C25_WasmBatchCollects ==
    /\ (last.op = "ImageConverter::batch_convert" /\ inner = "Some") =>
          LET b == last.result.value
              n == Len(last.tasks)
          IN /\ IsOk(last.result)
             /\ Len(last.outcomes) = n
             /\ b.total_count = n
             /\ b.successful_count
                   = Cardinality({i \in 1..n : IsOk(last.outcomes[i])})
             /\ \A i \in 0..(b.total_count - 1) :
                   LET res == BatchConversionResult_get_result(b, i)
                       err == BatchConversionResult_get_error(b, i)
                       outcome == last.outcomes[i + 1]
                   IN IF IsOk(outcome)
                      THEN /\ res = Some(to_js_converted_image(outcome.value))
                           /\ err = NoResult
                      ELSE /\ res = NoResult
                           /\ err = Some(ImageError_to_string(outcome.error))
    /\ (WasmBatchReturned /\ Returned("get_result")
           /\ ret.index < last.result.value.total_count) =>
          (ret.result # NoResult <=> IsOk(last.outcomes[ret.index + 1]))
    /\ (WasmBatchReturned /\ Returned("get_error")
           /\ ret.index < last.result.value.total_count) =>
          (ret.result # NoResult <=> IsErr(last.outcomes[ret.index + 1]))

\* C25 witness: a batch whose first task failed and whose second succeeded,
\* read back at index 1
C25_Witness ==
    /\ WasmBatchReturned
    /\ Len(last.tasks) = 2
    /\ IsErr(last.outcomes[1]) /\ IsOk(last.outcomes[2])
    /\ last.result.value.successful_count = 1
    /\ Returned("get_result")
    /\ ret.index = 1
    /\ ret.result # NoResult

====
